---- MODULE Spec2Model ----
(***************************************************************************)
(* A model of src/repository/src/raw.rs: CurRepository, the git2-backed    *)
(* implementation of the RawRepository trait.                              *)
(*                                                                         *)
(* The repository is the commit graph (parents), the local branches, the   *)
(* annotated tags, HEAD, the working directory and the configured remotes; *)
(* init and open act on directories that hold a repository or none.       *)
(* Callers are asynchronous tasks that share one                           *)
(* CurRepository handle; a handler that takes `&mut self` borrows the      *)
(* handle exclusively, a handler that takes `&self` shares it.  The only   *)
(* lock acquisitions in the source are `self.repo.read().await`.           *)
(*                                                                         *)
(* git2 calls are modelled by what libgit2 does with its default options:  *)
(* a reference is created or retargeted only on an object that exists in   *)
(* the object database, `force = false` refuses an existing name, and      *)
(* git_branch_delete refuses the branch HEAD is attached to.  Commit       *)
(* identifiers are numbered in creation order, which stands for the commit *)
(* time the revision walks sort by.                                        *)
(***************************************************************************)
EXTENDS Integers, Sequences, FiniteSets, TLC

\* ------------------------------------------------------------------ bounds
MaxCommits == 3       \* commit objects the object database may hold
MaxHist == 2          \* calls that may overlap between two quiescent points
MaxGraph == 4         \* commits of a repository opened for the graph queries

Tasks == {1, 2}
Callers == {1}
BranchNames == {"master", "feature"}
TagNames == {"v1"}
Titles == {"t1", "t2"}
RemoteNames == {"origin", "upstream"}
Urls == {"u1", "u2"}
Directories == {"d1", "d2"}
Hashes == 1..MaxCommits

VARIABLES
    parents,    \* commit id -> sequence of parent ids (the object database)
    branches,   \* refs/heads: branch name -> commit id
    tags,       \* refs/tags: tag name -> commit id the tag object targets
    head,       \* HEAD: attached to a branch name, or detached at a commit
    work,       \* the working directory: the commit whose tree the tracked
                \* files were written from (0: none), and whether they carry
                \* local modifications
    remotes,    \* the remotes of the repository's configuration: name -> url
    disk,       \* the directories init and open are called on: directory ->
                \* << >> when it holds no repository, <<r>> when it holds r
    readers,    \* tasks holding a read guard of the tokio RwLock
    pc,         \* each task's position in its handler
    call,       \* each task's call in flight
    hist,       \* calls returned since the last quiescent point, in order
    snap        \* the repository at the last quiescent point

vars == <<parents, branches, tags, head, work, remotes, disk, readers, pc, call,
          hist, snap>>
repo == <<parents, branches, tags, head>>

\* ------------------------------------------------------------- small helpers
EmptyMap == << >>

Remove(f, k) == [x \in (DOMAIN f) \ {k} |-> f[x]]

Put(f, k, v) == [x \in (DOMAIN f) \cup {k} |-> IF x = k THEN v ELSE f[x]]

Attached(name) == [kind |-> "branch", name |-> name, commit |-> 0]

Detached(c) == [kind |-> "detached", name |-> "", commit |-> c]

Clean(c) == [tree |-> c, dirty |-> FALSE]

Dirty(c) == [tree |-> c, dirty |-> TRUE]

RepoRec ==
    [parents |-> parents, branches |-> branches, tags |-> tags, head |-> head,
     work |-> work, remotes |-> remotes, disk |-> disk]

\* ------------------------------------------------------------- results
\* Error (raw.rs 11-20) and the Results the handlers return.  "Panic" is an
\* unwrap() or an index that fails; "Unit" is a handler body that ends without
\* producing its Result (the body's value is `()`).  A Result carries commit
\* hashes (val), names (names) or objects that are not names (objs).
Res(kind, code, val, names) ==
    [kind |-> kind, code |-> code, val |-> val, names |-> names, objs |-> {}]

OkUnit == Res("Ok", "", << >>, {})

OkHash(h) == Res("Ok", "", <<h>>, {})

OkNames(S) == Res("Ok", "", << >>, S)

OkList(l) == Res("Ok", "", l, {})

OkObjs(S) == [Res("Ok", "", << >>, {}) EXCEPT !.objs = S]

Git2Error(code) == Res("Git2Error", code, << >>, {})

InvalidRepository(msg) == Res("InvalidRepository", msg, << >>, {})

Panic == Res("Panic", "", << >>, {})

Unit == Res("Unit", "", << >>, {})

\* ------------------------------------------------------------- calls
MkCall(op, name, c1, c2) ==
    [op |-> op, name |-> name, c1 |-> c1, c2 |-> c2, url |-> "",
     acq |-> 0, chkAcq |-> 0]

RemoteCall(op, name, url) == [MkCall(op, name, 0, 0) EXCEPT !.url = url]

NoCall == MkCall("none", "", 0, 0)

Entry(t, c, r) ==
    [task |-> t, op |-> c.op, name |-> c.name, c1 |-> c.c1, c2 |-> c.c2,
     url |-> c.url,
     acq |-> c.acq, chkAcq |-> c.chkAcq,
     kind |-> r.kind, code |-> r.code, val |-> r.val, names |-> r.names,
     objs |-> r.objs]

\* The handlers that take `&mut self` (raw.rs 75-134, 186-192).
MutOps == {"move_branch", "delete_branch", "create_tag", "remove_tag",
           "create_commit", "create_semantic_commit", "checkout", "checkout_detach",
           "add_remote", "remove_remote"}

\* The handlers that change the repository whatever their receiver is.
MutatingOps == MutOps \cup {"create_branch"}

RefCalls ==
    {MkCall("create_branch", n, c, 0) : n \in BranchNames, c \in Hashes}
    \cup {MkCall("move_branch", n, c, 0) : n \in BranchNames, c \in Hashes}
    \cup {MkCall("delete_branch", n, 0, 0) : n \in BranchNames}
    \cup {MkCall("create_tag", n, c, 0) : n \in TagNames, c \in Hashes}
    \cup {MkCall("remove_tag", n, 0, 0) : n \in TagNames}
    \cup {MkCall("list_branches", "", 0, 0)}
    \cup {MkCall("locate_branch", n, 0, 0) : n \in BranchNames}

QueryCalls ==
    {MkCall("get_branches", "", c, 0) : c \in Hashes}
    \cup {MkCall("list_tags", "", 0, 0)}
    \cup {MkCall("locate_tag", n, 0, 0) : n \in TagNames}
    \cup {MkCall("get_tag", "", c, 0) : c \in Hashes}

TreeCalls ==
    {MkCall("create_commit", "", 0, 0)}
    \cup {MkCall("checkout", n, 0, 0) : n \in BranchNames}
    \cup {MkCall("checkout_detach", "", c, 0) : c \in Hashes}
    \cup {MkCall("get_head", "", 0, 0), MkCall("get_initial_commit", "", 0, 0)}

RemoteCalls ==
    {RemoteCall("add_remote", n, u) : n \in RemoteNames, u \in Urls}
    \cup {RemoteCall("remove_remote", n, "") : n \in RemoteNames}
    \cup {RemoteCall("list_remotes", "", "")}

OpenCalls ==
    {MkCall("init", d, 0, 0) : d \in Directories}
    \cup {MkCall("open", d, 0, 0) : d \in Directories}

SemanticCalls ==
    {MkCall("create_semantic_commit", s, 0, 0) : s \in Titles}
    \cup {MkCall("read_semantic_commit", "", c, 0) : c \in Hashes}

Calls == RefCalls \cup TreeCalls

\* max: Option<usize> is -1 for None.
GraphCalls ==
    {MkCall("list_ancestors", "", c, m) : c \in 1..MaxGraph, m \in -1..MaxGraph}
    \cup {MkCall("find_merge_base", "", a, b) : a \in 1..MaxGraph, b \in 1..MaxGraph}

LockCalls ==
    {MkCall("create_branch", n, c, 0) : n \in BranchNames, c \in {1, MaxCommits}}
    \cup {MkCall("list_branches", "", 0, 0)}
    \cup {MkCall("create_tag", n, c, 0) : n \in TagNames, c \in {1, MaxCommits}}
    \cup {MkCall("remove_tag", n, 0, 0) : n \in TagNames}

\* The handlers that only read (raw.rs 248-261, 284-317, 354-364, 397-457,
\* 596-726, 765-787).
PureQueries ==
    {"list_branches", "locate_branch", "get_branches", "list_tags", "locate_tag",
     "get_tag", "get_head", "get_initial_commit", "list_ancestors",
     "list_descendants", "list_children", "find_merge_base", "list_remotes"}

FrameCalls ==
    RefCalls \cup QueryCalls
    \cup {MkCall("get_head", "", 0, 0), MkCall("get_initial_commit", "", 0, 0)}
    \cup {MkCall("list_ancestors", "", c, m) : c \in Hashes, m \in {-1, 1}}
    \cup {MkCall("list_descendants", "", c, m) : c \in Hashes, m \in {-1, 1}}
    \cup {MkCall("list_children", "", c, 0) : c \in Hashes}
    \cup {MkCall("find_merge_base", "", c, d) : c \in Hashes, d \in Hashes}
    \cup {RemoteCall("list_remotes", "", "")}

RootCalls == {MkCall("get_head", "", 0, 0), MkCall("get_initial_commit", "", 0, 0)}

ForkCalls ==
    {MkCall("find_merge_base", "", a, b) : a \in 1..MaxGraph, b \in 1..MaxGraph}
    \cup {MkCall("list_descendants", "", c, m) : c \in 1..MaxGraph, m \in {-1, 1}}
    \cup {MkCall("list_children", "", c, 0) : c \in 1..MaxGraph}

\* Where a call starts: a handler whose first statement awaits the lock starts
\* waiting for it, the others start in their body.
StartPc(op) ==
    CASE op = "create_branch" -> "cb_wait1"
      [] op = "list_branches" -> "lb_wait"
      [] op = "remove_tag" -> "rt_wait"
      [] OTHER -> "body"

Active(t) == pc[t] # "idle"

Quiescent == \A u \in Tasks : pc[u] = "idle"

\* Rust's borrow of the handle: `&mut self` excludes every other call for as
\* long as the handler's future lives, `&self` excludes only the `&mut self` ones.
BorrowOk(t, op) ==
    IF op \in MutOps
    THEN \A u \in Tasks : ~Active(u)
    ELSE \A u \in Tasks : Active(u) => call[u].op \notin MutOps

\* ------------------------------------------------------------- Init
\* CurRepository::init (raw.rs 222-233): Repository::init on a directory that
\* holds no repository: no objects, no refs, HEAD attached to the unborn
\* default branch.
InitEmpty ==
    /\ parents = EmptyMap
    /\ branches = EmptyMap
    /\ tags = EmptyMap
    /\ head = Attached("master")
    /\ work = Clean(0)

\* CurRepository::open (raw.rs 236-241): a repository that already exists;
\* here one whose default branch holds the genesis commit, or the genesis
\* commit and one commit on it.
InitOpen ==
    /\ parents \in {<< << >> >>, << << >>, <<1>> >>}
    /\ branches = ("master" :> Len(parents))
    /\ tags = EmptyMap
    /\ head = Attached("master")
    /\ work = Clean(Len(parents))

NoRepositories == [d \in Directories |-> << >>]

Init ==
    /\ InitEmpty \/ InitOpen
    /\ remotes = EmptyMap
    /\ disk = NoRepositories
    /\ readers = {}
    /\ pc = [t \in Tasks |-> "idle"]
    /\ call = [t \in Tasks |-> NoCall]
    /\ hist = << >>
    /\ snap = RepoRec

\* ------------------------------------------------------------- call and return
Begin(t, c) ==
    /\ pc[t] = "idle"
    /\ BorrowOk(t, c.op)
    /\ Quiescent \/ Len(hist) + Cardinality({u \in Tasks : Active(u)}) < MaxHist
    /\ c.op = "create_commit" => Cardinality(DOMAIN parents) < MaxCommits
    /\ pc' = [pc EXCEPT ![t] = StartPc(c.op)]
    /\ call' = [call EXCEPT ![t] = c]
    /\ IF Quiescent
       THEN hist' = << >> /\ snap' = RepoRec
       ELSE UNCHANGED <<hist, snap>>
    /\ UNCHANGED <<repo, work, remotes, disk, readers>>

Reply(t, r) ==
    /\ hist' = Append(hist, Entry(t, call[t], r))
    /\ pc' = [pc EXCEPT ![t] = "idle"]
    /\ call' = [call EXCEPT ![t] = NoCall]
    /\ UNCHANGED snap

\* The return of a handler of the handle, which is bound to its repository.
Respond(t, r) == Reply(t, r) /\ UNCHANGED disk

\* The return of a handler that writes neither to the working directory nor
\* to the remotes.
Return(t, r) == Respond(t, r) /\ UNCHANGED <<work, remotes>>

\* `self.repo.read().await`: granted while no writer holds the lock; the
\* source never calls write(), so a reader is never refused.
AcquireRead(t, from, to) ==
    /\ pc[t] = from
    /\ pc' = [pc EXCEPT ![t] = to]
    /\ readers' = readers \cup {t}
    /\ call' = [call EXCEPT ![t].acq = @ + 1]
    /\ UNCHANGED <<repo, work, remotes, disk, hist, snap>>

InBody(t, op) == pc[t] = "body" /\ call[t].op = op

\* ------------------------------------------------------------- git2
\* Repository::find_commit (raw.rs 270, 370, 674).
find_commit(c) == c \in DOMAIN parents

\* Repository::find_branch(.., BranchType::Local) (raw.rs 285, 322, 338).
find_branch(name) == name \in DOMAIN branches

\* git_branch_is_head, which Branch::delete consults (raw.rs 344).
is_head(name) == head.kind = "branch" /\ head.name = name

\* Repository::head (raw.rs 474, 597, 611) resolves HEAD to a direct reference.
head_resolves == head.kind = "detached" \/ head.name \in DOMAIN branches

head_target == IF head.kind = "detached" THEN head.commit ELSE branches[head.name]

\* Repository::branch called with force = true: an existing name is replaced.
branch_force(name, c) == Put(branches, name, c)

\* Repository::branch(name, &commit, false) (raw.rs 274-278): the branch map
\* after the call; force = false leaves an existing name alone.
branch(name, c) ==
    IF name \in DOMAIN branches THEN branches ELSE Put(branches, name, c)

\* set_target without libgit2's check that the target object exists.
set_target_unchecked(name, c) == [branches EXCEPT ![name] = c]

\* set_target retargeting every branch rather than the one it is called on.
set_target_all(name, c) ==
    IF find_commit(c) THEN [b \in DOMAIN branches |-> c] ELSE branches

\* Reference::set_target (raw.rs 330): the branch map after the call; libgit2
\* retargets only to an object the object database holds.
set_target(name, c) ==
    IF find_commit(c) THEN [branches EXCEPT ![name] = c] ELSE branches

\* Branch::delete (raw.rs 344): the branch map after the call; libgit2 refuses
\* to delete the branch HEAD is attached to.
delete(name) ==
    IF is_head(name) THEN branches ELSE Remove(branches, name)

\* Repository::tag(name, &object, &tagger, msg, false) (raw.rs 383-390).
tag(name, c) ==
    IF name \in DOMAIN tags THEN tags ELSE Put(tags, name, c)

\* Repository::tag_delete (raw.rs 461).
tag_delete(name) == Remove(tags, name)

\* ------------------------------------------------------------- branches
\* list_branches that returns with its read guard still held.
list_branches_leak(t) ==
    /\ pc[t] = "lb_read"
    /\ Return(t, OkNames(DOMAIN branches))
    /\ UNCHANGED <<repo, readers>>

\* list_branches (raw.rs 248-261): one statement under a read guard.
list_branches_read(t) == AcquireRead(t, "lb_wait", "lb_read")

list_branches(t) ==
    /\ pc[t] = "lb_read"
    /\ readers' = readers \ {t}
    /\ Return(t, OkNames(DOMAIN branches))
    /\ UNCHANGED repo

\* create_branch (raw.rs 264-281): find_commit under one read guard, which is
\* dropped at the end of the statement, then branch() under a second one.
create_branch_read1(t) == AcquireRead(t, "cb_wait1", "cb_find")

create_branch_find_commit(t) ==
    /\ pc[t] = "cb_find"
    /\ readers' = readers \ {t}
    /\ UNCHANGED repo
    /\ IF find_commit(call[t].c1)
       THEN /\ pc' = [pc EXCEPT ![t] = "cb_wait2"]
            /\ call' = [call EXCEPT ![t].chkAcq = call[t].acq]
            /\ UNCHANGED <<work, remotes, disk, hist, snap>>
       ELSE Return(t, Git2Error("NotFound"))

create_branch_read2(t) == AcquireRead(t, "cb_wait2", "cb_branch")

create_branch(t) ==
    /\ pc[t] = "cb_branch"
    /\ readers' = readers \ {t}
    /\ branches' = branch(call[t].name, call[t].c1)
    /\ UNCHANGED <<parents, tags, head>>
    /\ IF call[t].name \in DOMAIN branches
       THEN Return(t, Git2Error("Exists"))
       ELSE Return(t, OkUnit)

\* locate_branch (raw.rs 284-294).
locate_branch_of(name) ==
    IF find_branch(name) THEN OkHash(branches[name]) ELSE Git2Error("NotFound")

locate_branch(t) ==
    /\ InBody(t, "locate_branch")
    /\ Return(t, locate_branch_of(call[t].name))
    /\ UNCHANGED <<repo, readers>>

\* move_branch (raw.rs 320-334): the result of set_target is bound to `_` and
\* the handler returns Ok(()) whatever it was.
move_branch(t) ==
    /\ InBody(t, "move_branch")
    /\ UNCHANGED <<parents, tags, head, readers>>
    /\ IF find_branch(call[t].name)
       THEN /\ branches' = set_target(call[t].name, call[t].c1)
            /\ Return(t, OkUnit)
       ELSE /\ UNCHANGED branches
            /\ Return(t, Git2Error("NotFound"))

\* delete_branch (raw.rs 337-347): the result of delete is bound to `_delete`
\* and the handler returns Ok(()) whatever it was.
delete_branch(t) ==
    /\ InBody(t, "delete_branch")
    /\ UNCHANGED <<parents, tags, head, readers>>
    /\ IF find_branch(call[t].name)
       THEN /\ branches' = delete(call[t].name)
            /\ Return(t, OkUnit)
       ELSE /\ UNCHANGED branches
            /\ Return(t, Git2Error("NotFound"))

\* ------------------------------------------------------------- tags
\* create_tag (raw.rs 367-393).
create_tag(t) ==
    /\ InBody(t, "create_tag")
    /\ UNCHANGED <<parents, branches, head, readers>>
    /\ IF ~find_commit(call[t].c1)
       THEN UNCHANGED tags /\ Return(t, Git2Error("NotFound"))
       ELSE /\ tags' = tag(call[t].name, call[t].c1)
            /\ IF call[t].name \in DOMAIN tags
               THEN Return(t, Git2Error("Exists"))
               ELSE Return(t, OkUnit)

\* remove_tag (raw.rs 460-462): tag_delete under a read guard.
remove_tag_read(t) == AcquireRead(t, "rt_wait", "rt_delete")

remove_tag(t) ==
    /\ pc[t] = "rt_delete"
    /\ readers' = readers \ {t}
    /\ UNCHANGED <<parents, branches, head>>
    /\ IF call[t].name \in DOMAIN tags
       THEN tags' = tag_delete(call[t].name) /\ Return(t, OkUnit)
       ELSE UNCHANGED tags /\ Return(t, Git2Error("NotFound"))

\* list_tags (raw.rs 354-364).
list_tags(t) ==
    /\ InBody(t, "list_tags")
    /\ Return(t, OkNames(DOMAIN tags))
    /\ UNCHANGED <<repo, readers>>

\* locate_tag (raw.rs 397-417): the tag objects are filtered by name and the
\* first of them is indexed, which panics when there is none.
locate_tag_of(name) ==
    LET tags_filter == {g \in DOMAIN tags : g = name}
    IN  IF tags_filter = {} THEN Panic ELSE OkHash(tags[name])

locate_tag(t) ==
    /\ InBody(t, "locate_tag")
    /\ Return(t, locate_tag_of(call[t].name))
    /\ UNCHANGED <<repo, readers>>

\* get_tag (raw.rs 433-457): the tag objects whose target is the commit are
\* collected into tags_filter; their names are collected into `res`, and
\* tags_filter is what is returned.  A tag object is its name and its target.
get_tag_of(c) ==
    LET tags_filter == {g \in DOMAIN tags : tags[g] = c}
        res == tags_filter
    IN  OkObjs({<<g, tags[g]>> : g \in tags_filter})

get_tag(t) ==
    /\ InBody(t, "get_tag")
    /\ Return(t, get_tag_of(call[t].c1))
    /\ UNCHANGED <<repo, readers>>

\* get_branches (raw.rs 298-317): the names of the local branches whose target
\* is the commit.
get_branches_of(c) == OkNames({b \in DOMAIN branches : branches[b] = c})

get_branches(t) ==
    /\ InBody(t, "get_branches")
    /\ Return(t, get_branches_of(call[t].c1))
    /\ UNCHANGED <<repo, readers>>

\* ------------------------------------------------------------- revision walks
Range(s) == {s[i] : i \in DOMAIN s}

Max(S) == CHOOSE x \in S : \A y \in S : y <= x

Min(S) == CHOOSE x \in S : \A y \in S : x <= y

\* The commits a walk pushed at the commits of S visits: S and every ancestor.
RECURSIVE Reach(_)
Reach(S) ==
    LET N == S \cup UNION {Range(parents[c]) : c \in S}
    IN  IF N = S THEN S ELSE Reach(N)

\* Sort::TIME: newest first.
RECURSIVE SortTime(_)
SortTime(S) ==
    IF S = {} THEN << >> ELSE <<Max(S)>> \o SortTime(S \ {Max(S)})

\* Sort::TIME | Sort::REVERSE: oldest first.
RECURSIVE SortTimeReverse(_)
SortTimeReverse(S) ==
    IF S = {} THEN << >> ELSE <<Min(S)>> \o SortTimeReverse(S \ {Min(S)})

\* ------------------------------------------------------------- commits
\* create_commit (raw.rs 468-509).  head().unwrap() panics on an unborn HEAD;
\* `branch` is the branch HEAD names; locate_branch(branch) fails with `?` when
\* HEAD is detached (TODO: Err at 475-477 returns nothing);
\* Repository::commit writes the commit with the branch tip as its one parent
\* and moves refs/heads/<branch> to it.  The body ends with the reset
\* statement: no Result is produced.  The tree of the commit is written from
\* the index with the file created in the working directory (raw.rs 483-487)
\* added, so the tracked files are those of the new commit; on a detached HEAD
\* that file is left behind untracked.  Staging (File::create, add_path,
\* write_tree) succeeds or fails as the file system lets it, and its results
\* are unwrapped.
new_commit == Cardinality(DOMAIN parents) + 1

create_commit(t) ==
    /\ InBody(t, "create_commit")
    /\ UNCHANGED <<tags, head, remotes, readers>>
    /\ \E staged \in BOOLEAN :
        IF ~head_resolves \/ ~staged
        THEN UNCHANGED <<parents, branches>> /\ Return(t, Panic)
        ELSE IF head.kind = "detached"
        THEN UNCHANGED <<parents, branches>> /\ Return(t, Git2Error("NotFound"))
        ELSE /\ parents' = Put(parents, new_commit, <<branches[head.name]>>)
             /\ branches' = [branches EXCEPT ![head.name] = new_commit]
             /\ work' = [work EXCEPT !.tree = new_commit]
             /\ Respond(t, Unit)

\* create_semantic_commit (raw.rs 513-522) and read_semantic_commit (raw.rs
\* 525-528): the bodies are unimplemented!(), which panics.  A SemanticCommit
\* is known by its title.
create_semantic_commit(t) ==
    /\ InBody(t, "create_semantic_commit")
    /\ Return(t, Panic)
    /\ UNCHANGED <<repo, readers>>

read_semantic_commit(t) ==
    /\ InBody(t, "read_semantic_commit")
    /\ Return(t, Panic)
    /\ UNCHANGED <<repo, readers>>

\* ------------------------------------------------------------- working tree
\* checkout (raw.rs 548-566): revparse_single of refs/heads/<branch>, then
\* checkout_tree (result dropped), then set_head.
\* Repository::checkout_tree(&obj, None) (raw.rs 558, 582): the working
\* directories the call may leave.  With no options libgit2 checks out with
\* GIT_CHECKOUT_SAFE against the tree of HEAD: tracked files that are as HEAD
\* has them are rewritten from the target; otherwise the call either reports a
\* conflict and writes nothing, or rewrites the files that are not in the way
\* and keeps the local modifications.
in_sync == ~work.dirty /\ head_resolves /\ work.tree = head_target

checkout_tree(c) ==
    IF in_sync THEN {Clean(c)} ELSE {work, [tree |-> c, dirty |-> work.dirty]}

checkout(t) ==
    /\ InBody(t, "checkout")
    /\ UNCHANGED <<parents, branches, tags, remotes, readers>>
    /\ IF find_branch(call[t].name)
       THEN /\ work' \in checkout_tree(branches[call[t].name])
            /\ head' = Attached(call[t].name)
            /\ Respond(t, OkUnit)
       ELSE UNCHANGED head /\ Return(t, Git2Error("NotFound"))

\* checkout_detach (raw.rs 569-589): revparse_single of "refs/heads/" + hash,
\* that is of the branch whose name is the hash, then checkout_tree and
\* set_head_detached (results dropped).
hash_name(c) == ToString(c)

checkout_detach(t) ==
    /\ InBody(t, "checkout_detach")
    /\ UNCHANGED <<parents, branches, tags, remotes, readers>>
    /\ IF find_branch(hash_name(call[t].c1))
       THEN /\ work' \in checkout_tree(branches[hash_name(call[t].c1)])
            /\ head' = IF find_commit(call[t].c1) THEN Detached(call[t].c1) ELSE head
            /\ Respond(t, OkUnit)
       ELSE UNCHANGED head /\ Return(t, Git2Error("NotFound"))

\* ------------------------------------------------------------- queries
\* get_head (raw.rs 596-602).
get_head_of ==
    IF head_resolves THEN OkHash(head_target) ELSE Git2Error("UnbornBranch")

get_head(t) ==
    /\ InBody(t, "get_head")
    /\ Return(t, get_head_of)
    /\ UNCHANGED <<repo, readers>>

\* get_initial_commit (raw.rs 607-633): the first commit of the walk pushed at
\* HEAD and sorted TIME | REVERSE.
get_initial_commit_of ==
    IF head_resolves
    THEN OkHash(SortTimeReverse(Reach({head_target}))[1])
    ELSE InvalidRepository("Repository is empty")

get_initial_commit(t) ==
    /\ InBody(t, "get_initial_commit")
    /\ Return(t, get_initial_commit_of)
    /\ UNCHANGED <<repo, readers>>

\* list_ancestors (raw.rs 651-693): the walk pushed at the commit is collected
\* into `oids`, which nothing reads; the commit's own parents are counted; the
\* branch taken for exactly one parent is empty, so the body has no value.
list_ancestors_of(c, max) ==
    IF ~find_commit(c)
    THEN Git2Error("NotFound")
    ELSE LET oids == SortTime(Reach({c}))
             num_parents == Len(parents[c])
         IN  IF num_parents = 0
             THEN InvalidRepository("There is no parent commit")
             ELSE IF num_parents > 1
             THEN InvalidRepository("There exists a merge commit")
             ELSE Unit

list_ancestors(t) ==
    /\ InBody(t, "list_ancestors")
    /\ Return(t, list_ancestors_of(call[t].c1, call[t].c2))
    /\ UNCHANGED <<repo, readers>>

\* Repository::merge_base (raw.rs 721), as libgit2 computes it: the two commits
\* are painted PARENT1 and PARENT2 down a queue ordered newest first; a commit
\* carrying both is a result and paints its ancestors STALE; the walk ends when
\* only STALE commits are queued.  The newest result that is not STALE is the
\* merge base; 0 stands for GIT_ENOTFOUND.
RECURSIVE paint_down_to_common(_, _, _)
paint_down_to_common(queue, flags, result) ==
    IF \A c \in queue : "STALE" \in flags[c]
    THEN [flags |-> flags, result |-> result]
    ELSE LET commit == Max(queue)
             found == flags[commit] \ {"STALE"} = {"PARENT1", "PARENT2"}
             paint == IF found THEN flags[commit] \cup {"STALE"} ELSE flags[commit]
             ps == {p \in Range(parents[commit]) : ~(paint \subseteq flags[p])}
         IN  paint_down_to_common(
                 (queue \ {commit}) \cup ps,
                 [x \in DOMAIN flags |-> IF x \in ps THEN flags[x] \cup paint ELSE flags[x]],
                 IF found THEN result \cup {commit} ELSE result)

\* merge_base with the first commit itself left out of the candidates.
merge_base_strict(one, two) ==
    LET common == (Reach({one}) \ {one}) \cap Reach({two})
    IN  IF one = two THEN one ELSE IF common = {} THEN 0 ELSE Max(common)

merge_base(one, two) ==
    IF one = two
    THEN one
    ELSE LET flags0 == [x \in DOMAIN parents |->
                           IF x = one THEN {"PARENT1"}
                           ELSE IF x = two THEN {"PARENT2"} ELSE {}]
             painted == paint_down_to_common({one, two}, flags0, {})
             bases == {c \in painted.result : "STALE" \notin painted.flags[c]}
         IN  IF bases = {} THEN 0 ELSE Max(bases)

\* find_merge_base (raw.rs 713-726).
find_merge_base_of(a, b) ==
    IF ~find_commit(a) \/ ~find_commit(b)
    THEN Git2Error("NotFound")
    ELSE IF merge_base(a, b) = 0
    THEN Git2Error("NotFound")
    ELSE OkHash(merge_base(a, b))

find_merge_base(t) ==
    /\ InBody(t, "find_merge_base")
    /\ Return(t, find_merge_base_of(call[t].c1, call[t].c2))
    /\ UNCHANGED <<repo, readers>>

\* list_descendants (raw.rs 699-705) and list_children (raw.rs 708-710): the
\* bodies are unimplemented!(), which panics.
list_descendants(t) ==
    /\ InBody(t, "list_descendants")
    /\ Return(t, Panic)
    /\ UNCHANGED <<repo, readers>>

list_children(t) ==
    /\ InBody(t, "list_children")
    /\ Return(t, Panic)
    /\ UNCHANGED <<repo, readers>>

\* ------------------------------------------------------------- init and open
\* Repository::open that finds no repository anywhere.
Repository_open_none(d) == FALSE

\* Repository::open (raw.rs 225, 239): whether the directory holds a repository.
Repository_open(d) == disk[d] # << >>

\* Repository::init (raw.rs 228) on a directory that holds no repository: no
\* objects, no refs, HEAD attached to the unborn default branch.
Repository_init ==
    [parents |-> EmptyMap, branches |-> EmptyMap, tags |-> EmptyMap,
     head |-> Attached("master"), work |-> Clean(0), remotes |-> EmptyMap]

\* CurRepository::init (raw.rs 222-233); the handle returned is known by its
\* directory.
init(t) ==
    /\ InBody(t, "init")
    /\ UNCHANGED <<repo, work, remotes, readers>>
    /\ IF Repository_open(call[t].name)
       THEN /\ UNCHANGED disk
            /\ Reply(t, InvalidRepository("There is an already existing repository"))
       ELSE /\ disk' = [disk EXCEPT ![call[t].name] = <<Repository_init>>]
            /\ Reply(t, OkNames({call[t].name}))

\* CurRepository::open (raw.rs 236-241).
open(t) ==
    /\ InBody(t, "open")
    /\ UNCHANGED <<repo, readers>>
    /\ IF Repository_open(call[t].name)
       THEN Return(t, OkNames({call[t].name}))
       ELSE Return(t, Git2Error("NotFound"))

\* ------------------------------------------------------------- remotes
\* Repository::remote with an existing name replaced.
remote_overwrite(name, url) == Put(remotes, name, url)

\* Repository::remote(name, url) (raw.rs 734-738): the remotes after the call;
\* libgit2 refuses a name that is already configured.
remote(name, url) ==
    IF name \in DOMAIN remotes THEN remotes ELSE Put(remotes, name, url)

\* Repository::remote_delete (raw.rs 745-748).
remote_delete(name) == Remove(remotes, name)

\* add_remote (raw.rs 733-741).
add_remote(t) ==
    /\ InBody(t, "add_remote")
    /\ UNCHANGED <<repo, work, readers>>
    /\ remotes' = remote(call[t].name, call[t].url)
    /\ IF call[t].name \in DOMAIN remotes
       THEN Respond(t, Git2Error("Exists"))
       ELSE Respond(t, OkUnit)

\* remove_remote (raw.rs 744-751).
remove_remote(t) ==
    /\ InBody(t, "remove_remote")
    /\ UNCHANGED <<repo, work, readers>>
    /\ IF call[t].name \in DOMAIN remotes
       THEN remotes' = remote_delete(call[t].name) /\ Respond(t, OkUnit)
       ELSE UNCHANGED remotes /\ Respond(t, Git2Error("NotFound"))

\* list_remotes (raw.rs 765-787): the names of Repository::remotes, each with
\* the url find_remote gives for it.
list_remotes_of ==
    LET remote_name_list == DOMAIN remotes
    IN  OkObjs({<<name, remotes[name]>> : name \in remote_name_list})

list_remotes(t) ==
    /\ InBody(t, "list_remotes")
    /\ Return(t, list_remotes_of)
    /\ UNCHANGED <<repo, readers>>

\* ------------------------------------------------------------- specifications
begin_open(t) == \E c \in OpenCalls : Begin(t, c)

begin_remote(t) == \E c \in RemoteCalls : Begin(t, c)

begin(t) == \E c \in Calls : Begin(t, c)

begin_tree(t) == \E c \in TreeCalls \cup SemanticCalls : Begin(t, c)

begin_query(t) == \E c \in RefCalls \cup QueryCalls : Begin(t, c)

begin_ref(t) == \E c \in RefCalls : Begin(t, c)

begin_graph(t) == \E c \in GraphCalls : Begin(t, c)

begin_lock(t) == \E c \in LockCalls : Begin(t, c)

begin_frame(t) == \E c \in FrameCalls : Begin(t, c)

begin_root(t) == \E c \in RootCalls : Begin(t, c)

begin_fork(t) == \E c \in ForkCalls : Begin(t, c)

RefStep(t) ==
    \/ list_branches_read(t)
    \/ list_branches(t)
    \/ create_branch_read1(t)
    \/ create_branch_find_commit(t)
    \/ create_branch_read2(t)
    \/ create_branch(t)
    \/ locate_branch(t)
    \/ move_branch(t)
    \/ delete_branch(t)
    \/ create_tag(t)
    \/ remove_tag_read(t)
    \/ remove_tag(t)

QueryStep(t) ==
    \/ get_branches(t)
    \/ list_tags(t)
    \/ locate_tag(t)
    \/ get_tag(t)

SemanticStep(t) ==
    \/ create_semantic_commit(t)
    \/ read_semantic_commit(t)

TreeStep(t) ==
    \/ create_commit(t)
    \/ checkout(t)
    \/ checkout_detach(t)
    \/ get_head(t)
    \/ get_initial_commit(t)

GraphStep(t) ==
    \/ list_ancestors(t)
    \/ find_merge_base(t)

ForkStep(t) ==
    \/ find_merge_base(t)
    \/ list_descendants(t)
    \/ list_children(t)

RemoteStep(t) ==
    \/ add_remote(t)
    \/ remove_remote(t)
    \/ list_remotes(t)

\* One caller issuing calls one after the other.
Next == \E t \in Callers : begin(t) \/ RefStep(t) \/ TreeStep(t)

Spec == Init /\ [][Next]_vars

\* One caller on the branches and tags and the queries on them.
NextQuery == \E t \in Callers : begin_query(t) \/ RefStep(t) \/ QueryStep(t)

SpecQuery == Init /\ [][NextQuery]_vars

\* Tasks sharing the handle, on the branches and tags.
NextShared == \E t \in Tasks : begin_ref(t) \/ RefStep(t)

SpecShared == Init /\ [][NextShared]_vars

\* The commit and working-directory handlers on a repository that open()
\* loaded in any of the states its working directory can be in: HEAD attached
\* to the default branch or detached at a commit, a second branch or none, the
\* tracked files as HEAD has them or locally modified; or on the repository
\* init() made.
InitTree ==
    /\ \/ InitEmpty
       \/ /\ parents \in {<< << >> >>, << << >>, <<1>> >>}
          /\ branches \in {("master" :> Len(parents)),
                           ("master" :> Len(parents)) @@ ("feature" :> 1)}
          /\ tags = EmptyMap
          /\ head \in {Attached("master")} \cup {Detached(c) : c \in DOMAIN parents}
          /\ work \in {Clean(head_target), Dirty(head_target)}
    /\ remotes = EmptyMap
    /\ disk = NoRepositories
    /\ readers = {}
    /\ pc = [t \in Tasks |-> "idle"]
    /\ call = [t \in Tasks |-> NoCall]
    /\ hist = << >>
    /\ snap = RepoRec

NextTree == \E t \in Callers : begin_tree(t) \/ TreeStep(t) \/ SemanticStep(t)

SpecTree == InitTree /\ [][NextTree]_vars

\* init and open on directories each of which holds no repository, the
\* repository init makes, or one whose default branch is a chain of up to
\* MaxCommits commits.
Chain(n) == [i \in 1..n |-> IF i = 1 THEN << >> ELSE <<i - 1>>]

Repositories ==
    {Repository_init}
    \cup {[parents |-> Chain(n), branches |-> ("master" :> n), tags |-> EmptyMap,
           head |-> Attached("master"), work |-> Clean(n), remotes |-> EmptyMap]
             : n \in 1..MaxCommits}

InitDisk ==
    /\ InitEmpty
    /\ remotes = EmptyMap
    /\ disk \in [Directories -> {<< >>} \cup {<<r>> : r \in Repositories}]
    /\ readers = {}
    /\ pc = [t \in Tasks |-> "idle"]
    /\ call = [t \in Tasks |-> NoCall]
    /\ hist = << >>
    /\ snap = RepoRec

OpenStep(t) == init(t) \/ open(t)

NextOpen == \E t \in Callers : begin_open(t) \/ OpenStep(t)

SpecOpen == InitDisk /\ [][NextOpen]_vars

\* The handlers on the remotes, from a repository that has none configured.
NextRemote == \E t \in Callers : begin_remote(t) \/ RemoteStep(t)

SpecRemote == Init /\ [][NextRemote]_vars

\* The graph queries on a repository that open() loaded: any history of up to
\* MaxGraph commits, each with no parent, one parent or two, the default branch
\* at the newest commit.
ParentLists(i) ==
    {<< >>} \cup {<<j>> : j \in 1..(i - 1)}
    \cup {q \in (1..(i - 1)) \X (1..(i - 1)) : q[1] # q[2]}

RECURSIVE HistoriesOf(_)
HistoriesOf(n) ==
    IF n = 0 THEN {<< >>}
    ELSE {Append(g, ps) : g \in HistoriesOf(n - 1), ps \in ParentLists(n)}

Histories == UNION {HistoriesOf(n) : n \in 1..MaxGraph}

InitGraph ==
    /\ parents \in Histories
    /\ branches = ("master" :> Len(parents))
    /\ tags = EmptyMap
    /\ head = Attached("master")
    /\ work = Clean(Len(parents))
    /\ remotes = EmptyMap
    /\ disk = NoRepositories
    /\ readers = {}
    /\ pc = [t \in Tasks |-> "idle"]
    /\ call = [t \in Tasks |-> NoCall]
    /\ hist = << >>
    /\ snap = RepoRec

NextGraph == \E t \in Callers : begin_graph(t) \/ GraphStep(t)

SpecGraph == InitGraph /\ [][NextGraph]_vars

\* Tasks sharing the handle on the handlers that take the lock (and create_tag,
\* which gives remove_tag a tag to delete).  The executor polls every task that
\* can run, and a read guard is granted whenever it is asked for, so each
\* task's steps are weakly fair; callers are free to stop calling.
LockStep(t) ==
    \/ list_branches_read(t)
    \/ list_branches(t)
    \/ create_branch_read1(t)
    \/ create_branch_find_commit(t)
    \/ create_branch_read2(t)
    \/ create_branch(t)
    \/ create_tag(t)
    \/ remove_tag_read(t)
    \/ remove_tag(t)

NextLock == \E t \in Tasks : begin_lock(t) \/ LockStep(t)

SpecLock == Init /\ [][NextLock]_vars /\ \A t \in Tasks : WF_vars(LockStep(t))

\* One caller on the branches and tags and every handler that only reads.
FrameStep(t) ==
    \/ RefStep(t)
    \/ QueryStep(t)
    \/ get_head(t)
    \/ get_initial_commit(t)
    \/ list_ancestors(t)
    \/ list_descendants(t)
    \/ list_children(t)
    \/ find_merge_base(t)
    \/ list_remotes(t)

NextFrame == \E t \in Callers : begin_frame(t) \/ FrameStep(t)

SpecFrame == Init /\ [][NextFrame]_vars

\* The queries on HEAD, on the same repositories.
RootStep(t) == get_head(t) \/ get_initial_commit(t)

NextRoot == \E t \in Callers : begin_root(t) \/ RootStep(t)

SpecRoot == InitGraph /\ [][NextRoot]_vars

\* The queries on the children of a commit, on the same repositories.
NextFork == \E t \in Callers : begin_fork(t) \/ ForkStep(t)

SpecFork == InitGraph /\ [][NextFork]_vars

\* ------------------------------------------------------------- claims
\* The call that returned last, once no call is in flight.  Under Spec (one
\* caller) the repository is then that call's post-state and snap its
\* pre-state.
Returned == Quiescent /\ hist # << >>

Last == hist[Len(hist)]

ResOf(e) == [Res(e.kind, e.code, e.val, e.names) EXCEPT !.objs = e.objs]

\* The classification the source can express: Error (raw.rs 11-20) has no
\* NotFound or AlreadyExists variant, so they are the git2 error codes carried
\* by Error::Git2Error; InvalidRepository is the variant of that name.
IsNotFound(e) == e.kind = "Git2Error" /\ e.code = "NotFound"

IsAlreadyExists(e) == e.kind = "Git2Error" /\ e.code = "Exists"

IsInvalidRepository(e) == e.kind = "InvalidRepository"

IsOk(e) == e.kind = "Ok"

\* A task is reading or changing the repository (not merely waiting for the lock).
Touching(t) == pc[t] \in {"body", "cb_find", "cb_branch", "lb_read", "rt_delete"}

\* C1: a mutating operation has the repository to itself for as long as it
\* reads or changes it: no other operation, read or write, touches the
\* repository at the same time.
C1_MutatorsExclusive ==
    \A t \in Tasks :
        (Touching(t) /\ call[t].op \in MutatingOps)
            => \A u \in Tasks \ {t} : ~Touching(u)

\* The handlers on branches and tags run one at a time from a branch map b and
\* a tag map g (commits and HEAD are those of snap, which these handlers leave
\* alone): the maps after the call and its result.
SerialCall(b, g, e) ==
    LET out(b2, g2, r) == [b |-> b2, g |-> g2, res |-> r]
        known == e.c1 \in DOMAIN snap.parents
    IN  CASE e.op = "create_branch" ->
               IF ~known THEN out(b, g, Git2Error("NotFound"))
               ELSE IF e.name \in DOMAIN b THEN out(b, g, Git2Error("Exists"))
               ELSE out(Put(b, e.name, e.c1), g, OkUnit)
          [] e.op = "move_branch" ->
               IF e.name \notin DOMAIN b THEN out(b, g, Git2Error("NotFound"))
               ELSE out(IF known THEN [b EXCEPT ![e.name] = e.c1] ELSE b, g, OkUnit)
          [] e.op = "delete_branch" ->
               IF e.name \notin DOMAIN b THEN out(b, g, Git2Error("NotFound"))
               ELSE out(IF snap.head = Attached(e.name) THEN b ELSE Remove(b, e.name), g, OkUnit)
          [] e.op = "create_tag" ->
               IF ~known THEN out(b, g, Git2Error("NotFound"))
               ELSE IF e.name \in DOMAIN g THEN out(b, g, Git2Error("Exists"))
               ELSE out(b, Put(g, e.name, e.c1), OkUnit)
          [] e.op = "remove_tag" ->
               IF e.name \notin DOMAIN g THEN out(b, g, Git2Error("NotFound"))
               ELSE out(b, Remove(g, e.name), OkUnit)
          [] e.op = "list_branches" -> out(b, g, OkNames(DOMAIN b))
          [] e.op = "locate_branch" ->
               out(b, g, IF e.name \in DOMAIN b THEN OkHash(b[e.name])
                         ELSE Git2Error("NotFound"))

\* Whether running hist in the order p, one call at a time from snap, gives
\* every call the result it returned and ends in the present maps.
RECURSIVE SerialFrom(_, _, _, _)
SerialFrom(b, g, p, i) ==
    IF i > Len(hist)
    THEN b = branches /\ g = tags
    ELSE LET e == hist[p[i]]
             o == SerialCall(b, g, e)
         IN  o.res = ResOf(e) /\ SerialFrom(o.b, o.g, p, i + 1)

Orders(n) == {p \in [1..n -> 1..n] : \A i, j \in 1..n : p[i] = p[j] => i = j}

Serializable == \E p \in Orders(Len(hist)) : SerialFrom(snap.branches, snap.tags, p, 1)

\* C2: concurrent calls on branches and tags return what some one-at-a-time
\* order of them returns and leave the maps that order leaves; two create_branch
\* of one name never both succeed; and a create_branch that succeeds wrote the
\* branch under the lock acquisition under which it checked the commit.
C2_SerialAndOneAcquisition ==
    /\ Returned => Serializable
    /\ \A i, j \in 1..Len(hist) :
           (i # j /\ hist[i].op = "create_branch" /\ hist[j].op = "create_branch"
                  /\ hist[i].name = hist[j].name)
               => ~(IsOk(hist[i]) /\ IsOk(hist[j]))
    /\ \A i \in 1..Len(hist) :
           (hist[i].op = "create_branch" /\ IsOk(hist[i]))
               => hist[i].chkAcq = hist[i].acq

\* C3: create_branch(name, commit) fails NotFound when the commit does not
\* exist, fails AlreadyExists when (the commit exists and) the name is taken,
\* leaves the branch map as it was in both cases, and otherwise succeeds and
\* adds exactly name -> commit.
C3_CreateBranch ==
    (Returned /\ Last.op = "create_branch") =>
        IF Last.c1 \notin DOMAIN snap.parents
        THEN IsNotFound(Last) /\ branches = snap.branches
        ELSE IF Last.name \in DOMAIN snap.branches
        THEN IsAlreadyExists(Last) /\ branches = snap.branches
        ELSE IsOk(Last) /\ branches = Put(snap.branches, Last.name, Last.c1)

\* create_branch on a taken name, for another commit that exists, has failed.
C3_Witness ==
    /\ Returned /\ Last.op = "create_branch" /\ IsAlreadyExists(Last)
    /\ Last.c1 \in DOMAIN snap.parents
    /\ snap.branches[Last.name] # Last.c1

\* C4: move_branch(name, c) fails NotFound when the branch or the commit c does
\* not exist and leaves the branch map as it was; when it succeeds,
\* locate_branch(name) returns c.
C4_MoveBranch ==
    (Returned /\ Last.op = "move_branch") =>
        /\ (Last.name \notin DOMAIN snap.branches \/ Last.c1 \notin DOMAIN snap.parents)
               => (IsNotFound(Last) /\ branches = snap.branches)
        /\ IsOk(Last) => locate_branch_of(Last.name) = OkHash(Last.c1)

\* C5: delete_branch and remove_tag of an absent name fail NotFound and leave
\* both lists as they were; when either succeeds the name is gone and no other
\* name is.
C5_DeleteRemoves ==
    /\ (Returned /\ Last.op = "delete_branch") =>
           /\ Last.name \notin DOMAIN snap.branches
                  => (IsNotFound(Last) /\ branches = snap.branches /\ tags = snap.tags)
           /\ IsOk(Last) => branches = Remove(snap.branches, Last.name)
    /\ (Returned /\ Last.op = "remove_tag") =>
           /\ Last.name \notin DOMAIN snap.tags
                  => (IsNotFound(Last) /\ branches = snap.branches /\ tags = snap.tags)
           /\ IsOk(Last) => tags = Remove(snap.tags, Last.name)

C7_EmptyRepository ==
    (Returned /\ Last.op \in {"get_head", "get_initial_commit", "create_commit"}) =>
        /\ snap.parents = EmptyMap => IsInvalidRepository(Last)
        /\ (Last.op # "create_commit" /\ DOMAIN snap.parents = {1} /\ head_resolves)
               => ResOf(Last) = OkHash(1)

\* The strict ancestors of c along its parent links, nearest first.
RECURSIVE AncestorChain(_)
AncestorChain(c) ==
    IF parents[c] = << >> THEN << >>
    ELSE <<parents[c][1]>> \o AncestorChain(parents[c][1])

\* No commit from c to the root is a merge commit.
LinearToRoot(c) == \A x \in Reach({c}) : Len(parents[x]) <= 1

\* C8: for a commit c with a parent and no merge commit on its path to the
\* root, list_ancestors(c, None) returns c's strict ancestors from the direct
\* parent on, nearest first, as many as c's depth; and list_ancestors(c, Some(k))
\* returns the first k of them for every k up to the depth.
C8_LinearAncestors ==
    (Returned /\ Last.op = "list_ancestors" /\ find_commit(Last.c1)
        /\ LinearToRoot(Last.c1) /\ AncestorChain(Last.c1) # << >>) =>
        /\ Last.c2 = -1 => ResOf(Last) = OkList(AncestorChain(Last.c1))
        /\ Last.c2 \in 0..Len(AncestorChain(Last.c1))
               => ResOf(Last) = OkList(SubSeq(AncestorChain(Last.c1), 1, Last.c2))

\* Whether one of the first n commits visited from c, c included, is a merge
\* commit.
RECURSIVE MergeWithin(_, _)
MergeWithin(c, n) ==
    IF n <= 0 THEN FALSE
    ELSE IF Len(parents[c]) > 1 THEN TRUE
    ELSE IF Len(parents[c]) = 0 THEN FALSE
    ELSE MergeWithin(parents[c][1], n - 1)

\* C9: list_ancestors(commit, max) fails with InvalidRepository when commit is
\* a root and when any commit visited on the requested path, not only the
\* first, has more than one parent.
C9_AncestorsFailOnRootOrMerge ==
    (Returned /\ Last.op = "list_ancestors" /\ find_commit(Last.c1)) =>
        /\ parents[Last.c1] = << >> => IsInvalidRepository(Last)
        /\ MergeWithin(Last.c1, IF Last.c2 = -1 THEN MaxGraph ELSE Last.c2)
               => IsInvalidRepository(Last)

ChildrenOf(c) == {x \in DOMAIN parents : c \in Range(parents[x])}

\* H0 has exactly two children, each with H0 as its only parent.
Fork(h0) ==
    /\ Cardinality(ChildrenOf(h0)) = 2
    /\ \A x \in ChildrenOf(h0) : parents[x] = <<h0>>

\* C11: when H0 has exactly the two children H1 and H2, list_children(H0)
\* returns exactly {H1, H2}, find_merge_base(H1, H2) returns H0 and
\* list_descendants(H0, None) fails with InvalidRepository; find_merge_base of
\* two commits with no common ancestor fails NotFound.
C11_Fork ==
    /\ (Returned /\ Last.op = "list_children" /\ find_commit(Last.c1) /\ Fork(Last.c1)) =>
           (IsOk(Last) /\ Range(Last.val) = ChildrenOf(Last.c1) /\ Len(Last.val) = 2)
    /\ (Returned /\ Last.op = "list_descendants" /\ find_commit(Last.c1)
           /\ Fork(Last.c1) /\ Last.c2 = -1) => IsInvalidRepository(Last)
    /\ (Returned /\ Last.op = "find_merge_base"
           /\ find_commit(Last.c1) /\ find_commit(Last.c2) /\ Last.c1 # Last.c2) =>
           /\ (\E h0 \in DOMAIN parents : Fork(h0) /\ ChildrenOf(h0) = {Last.c1, Last.c2})
                  => ResOf(Last) = OkHash(parents[Last.c1][1])
           /\ Reach({Last.c1}) \cap Reach({Last.c2}) = {} => IsNotFound(Last)

\* The classified failures of Error (raw.rs 11-20).
IsError(e) == e.kind \in {"Git2Error", "InvalidRepository", "Unknown"}

\* C12: create_commit succeeds only when HEAD is attached to a branch and
\* fails when HEAD is detached; the branch leaves the tip it had before the
\* call only by a call that succeeds, and then points to the new commit, whose
\* one parent is that tip; while the call runs the branch is at that tip.
C12_CreateCommit ==
    /\ (Returned /\ Last.op = "create_commit") =>
           /\ IsOk(Last) => snap.head.kind = "branch"
           /\ snap.head.kind = "detached" => (IsError(Last) /\ branches = snap.branches)
           /\ branches # snap.branches =>
                  /\ IsOk(Last) /\ Len(Last.val) = 1
                  /\ Last.val[1] \notin DOMAIN snap.parents
                  /\ parents = Put(snap.parents, Last.val[1], <<snap.branches[snap.head.name]>>)
                  /\ branches = [snap.branches EXCEPT ![snap.head.name] = Last.val[1]]
    /\ \A t \in Callers : InBody(t, "create_commit") => branches = snap.branches

\* C13: when create_commit fails, at whatever step, the current branch points
\* to the commit it pointed to before the call and the call reports a
\* classified error; it does not panic.
C13_CreateCommitFailure ==
    (Returned /\ Last.op = "create_commit" /\ Last.kind \notin {"Ok", "Unit"}) =>
        (branches = snap.branches /\ IsError(Last))

\* C14: checkout(branch) fails NotFound when the branch does not exist; when it
\* succeeds, whatever the working directory was before (clean, modified, HEAD
\* detached), HEAD is attached to the branch and the tracked files are those of
\* the tree of the branch's tip.
C14_Checkout ==
    (Returned /\ Last.op = "checkout") =>
        /\ Last.name \notin DOMAIN snap.branches => IsNotFound(Last)
        /\ IsOk(Last) =>
               (head = Attached(Last.name) /\ work = Clean(branches[Last.name]))

\* C15: checkout_detach(commit) succeeds for every commit that exists and
\* leaves HEAD detached at it with the tracked files those of its tree; for a
\* commit that does not exist it fails NotFound.
C15_CheckoutDetach ==
    (Returned /\ Last.op = "checkout_detach") =>
        IF Last.c1 \in DOMAIN snap.parents
        THEN IsOk(Last) /\ head = Detached(Last.c1) /\ work = Clean(Last.c1)
        ELSE IsNotFound(Last)

\* C16: create_semantic_commit(s) fails with InvalidRepository when HEAD is
\* detached and otherwise returns a new commit; read_semantic_commit of a
\* commit returns the semantic commit it was created from (title, body and
\* reserved-state diff), here one of the titles, or a classified error for a
\* commit that holds none.
C16_SemanticRoundTrip ==
    /\ (Returned /\ Last.op = "create_semantic_commit") =>
           IF snap.head.kind = "detached"
           THEN IsInvalidRepository(Last)
           ELSE snap.head.name \in DOMAIN snap.branches =>
                    (IsOk(Last) /\ Len(Last.val) = 1 /\ Last.val[1] \in DOMAIN parents)
    /\ (Returned /\ Last.op = "read_semantic_commit" /\ Last.c1 \in DOMAIN snap.parents) =>
           \/ IsOk(Last) /\ Last.names \subseteq Titles /\ Cardinality(Last.names) = 1
           \/ IsError(Last)

\* C17: locate_branch and locate_tag return NotFound, and do not panic, for a
\* name that is absent and the commit for a name that is present; create_tag
\* fails NotFound when the commit does not exist and AlreadyExists when (the
\* commit exists and) the name is taken, leaving the tags as they were;
\* after a create_tag(name, c) that succeeds locate_tag(name) returns c.
C17_Locate ==
    /\ (Returned /\ Last.op = "locate_branch") =>
           ResOf(Last) = IF Last.name \in DOMAIN branches
                         THEN OkHash(branches[Last.name]) ELSE Git2Error("NotFound")
    /\ (Returned /\ Last.op = "locate_tag") =>
           IF Last.name \in DOMAIN tags
           THEN ResOf(Last) = OkHash(tags[Last.name])
           ELSE IsNotFound(Last)
    /\ (Returned /\ Last.op = "create_tag") =>
           IF Last.c1 \notin DOMAIN snap.parents
           THEN IsNotFound(Last) /\ tags = snap.tags
           ELSE IF Last.name \in DOMAIN snap.tags
           THEN IsAlreadyExists(Last) /\ tags = snap.tags
           ELSE IsOk(Last) /\ locate_tag_of(Last.name) = OkHash(Last.c1)

\* C18: get_branches(c) returns exactly the names of the branches that
\* locate_branch sends to c, get_tag(c) exactly the names of the tags that
\* locate_tag sends to c, and both return the empty list, not an error, when
\* nothing points at c.
C18_ReverseLookup ==
    /\ (Returned /\ Last.op = "get_branches") =>
           ResOf(Last) = OkNames({b \in BranchNames : locate_branch_of(b) = OkHash(Last.c1)})
    /\ (Returned /\ Last.op = "get_tag") =>
           ResOf(Last) = OkNames({g \in TagNames : locate_tag_of(g) = OkHash(Last.c1)})

\* C19: add_remote fails AlreadyExists when the name is registered and
\* remove_remote fails NotFound when it is not, both leaving the remotes as
\* they were; otherwise add_remote adds exactly (name, url) and remove_remote
\* removes exactly the name; list_remotes returns exactly the (name, url) pairs
\* added and not removed since, the empty list when there are none.
C19_Remotes ==
    /\ (Returned /\ Last.op = "add_remote") =>
           IF Last.name \in DOMAIN snap.remotes
           THEN IsAlreadyExists(Last) /\ remotes = snap.remotes
           ELSE IsOk(Last) /\ remotes = Put(snap.remotes, Last.name, Last.url)
    /\ (Returned /\ Last.op = "remove_remote") =>
           IF Last.name \notin DOMAIN snap.remotes
           THEN IsNotFound(Last) /\ remotes = snap.remotes
           ELSE IsOk(Last) /\ remotes = Remove(snap.remotes, Last.name)
    /\ (Returned /\ Last.op = "list_remotes") =>
           /\ IsOk(Last) /\ remotes = snap.remotes
           /\ Last.objs = {<<n, snap.remotes[n]>> : n \in DOMAIN snap.remotes}
           /\ snap.remotes = EmptyMap => ResOf(Last) = OkObjs({})

\* add_remote of a registered name with another url has failed while a second
\* remote is registered.
C19_Witness ==
    /\ Returned /\ Last.op = "add_remote" /\ IsAlreadyExists(Last)
    /\ snap.remotes[Last.name] # Last.url
    /\ Cardinality(DOMAIN remotes) = 2

C21_InitialCommit ==
    (Returned /\ Last.op = "get_initial_commit" /\ head_resolves) =>
        LET reached == Reach({head_target})
            roots == {x \in reached : parents[x] = << >>}
        IN  IF \A x \in reached : Len(parents[x]) <= 1
            THEN \E r \in roots : roots = {r} /\ ResOf(Last) = OkHash(r)
            ELSE ~IsOk(Last)

\* C22: when checkout or checkout_detach returns an error, HEAD and the tracked
\* files are as they were before the call; when either returns success, HEAD
\* is where the call was to put it and the tracked files were written from the
\* tree asked for.
C22_CheckoutAllOrNothing ==
    (Returned /\ Last.op \in {"checkout", "checkout_detach"}) =>
        /\ ~IsOk(Last) => (head = snap.head /\ work = snap.work)
        /\ (IsOk(Last) /\ Last.op = "checkout") =>
               (head = Attached(Last.name) /\ work.tree = snap.branches[Last.name])
        /\ (IsOk(Last) /\ Last.op = "checkout_detach") =>
               (head = Detached(Last.c1) /\ work.tree = Last.c1)

\* A task is waiting for the lock.
Waiting(t) == pc[t] \in {"lb_wait", "cb_wait1", "cb_wait2", "rt_wait"}

\* C23: a task that has returned holds no guard of the lock, whether it
\* returned a value or an error, and a task asking for the lock holds no guard
\* of it; a task waiting for the lock is eventually granted it, and a guard
\* that is held is eventually released.
C23_LockReleased ==
    /\ [](\A t \in Tasks : (pc[t] = "idle" \/ Waiting(t)) => t \notin readers)
    /\ \A t \in Tasks : Waiting(t) ~> (t \in readers)
    /\ \A t \in Tasks : (t \in readers) ~> (t \notin readers)

\* A task waits for the lock while the other task holds a read guard in a
\* create_branch that is about to return an error.
C23_Witness ==
    \E t, u \in Tasks :
        /\ Waiting(t) /\ u \in readers
        /\ pc[u] = "cb_find" /\ ~find_commit(call[u].c1)

\* The three states of HEAD: unborn (it names a branch that does not exist yet,
\* in a repository without commits), attached to a branch that exists, detached
\* at a commit the repository holds.
HeadUnborn == head.kind = "branch" /\ head.name \notin DOMAIN branches /\ parents = EmptyMap

HeadAttached == head.kind = "branch" /\ head.name \in DOMAIN branches

HeadDetached == head.kind = "detached" /\ head.commit \in DOMAIN parents

C24_HeadExactlyOne ==
    /\ HeadUnborn \/ HeadAttached \/ HeadDetached
    /\ ~(HeadUnborn /\ HeadAttached) /\ ~(HeadAttached /\ HeadDetached)
    /\ ~(HeadUnborn /\ HeadDetached)

C24_GetHeadIsLocate ==
    (Returned /\ Last.op = "get_head" /\ HeadAttached) =>
        ResOf(Last) = locate_branch_of(head.name)

C24_DeleteKeepsHead ==
    (Returned /\ Last.op = "delete_branch") => 
        (HeadAttached \/ snap.head.name \notin DOMAIN snap.branches)

C24_DeleteReportsTruth ==
    (Returned /\ Last.op = "delete_branch" /\ IsOk(Last)) =>
        Last.name \notin DOMAIN branches

\* C24: HEAD is in exactly one of the states unborn (it names a branch that
\* does not exist yet, in a repository without commits), attached to a branch
\* that exists, or detached at a commit the repository holds; when attached,
\* get_head returns what locate_branch returns for that branch; delete_branch
\* never leaves HEAD attached to a missing branch and does not report success
\* while the branch it was asked to delete still exists.
C24_HeadState ==
    /\ C24_HeadExactlyOne
    /\ C24_GetHeadIsLocate
    /\ C24_DeleteKeepsHead
    /\ C24_DeleteReportsTruth

\* The maps f and g agree on every name but n.
SameBut(f, g, n) ==
    /\ DOMAIN f \ {n} = DOMAIN g \ {n}
    /\ \A x \in DOMAIN f \ {n} : f[x] = g[x]

\* C25: create_branch, move_branch and delete_branch change at most the branch
\* they name, create_tag and remove_tag at most the tag they name: the commits
\* and their parents, every other branch and tag, HEAD, the working tree, the
\* remotes and the disk are as before the call; a handler that only reads
\* leaves the whole repository as it was.
C25_Frame ==
    Returned =>
        /\ Last.op \in {"create_branch", "move_branch", "delete_branch"} =>
               /\ SameBut(branches, snap.branches, Last.name)
               /\ RepoRec = [snap EXCEPT !.branches = branches]
        /\ Last.op \in {"create_tag", "remove_tag"} =>
               /\ SameBut(tags, snap.tags, Last.name)
               /\ RepoRec = [snap EXCEPT !.tags = tags]
        /\ Last.op \in PureQueries => RepoRec = snap

\* A move_branch has changed its branch in a repository that holds another
\* branch and a tag.
C25_Witness ==
    /\ Returned /\ Last.op = "move_branch" /\ IsOk(Last)
    /\ branches # snap.branches
    /\ DOMAIN branches = BranchNames
    /\ DOMAIN tags = TagNames

====
